---- MODULE Spec2Model ----
(***************************************************************************)
(* A model of lisp_parser.py: the tokenizer and recursive-descent parser,  *)
(* the chained environments, the evaluator with its closures and           *)
(* primitive procedures, and the read-eval-print loop.                     *)
(*                                                                         *)
(* Text is a sequence of one-character strings.  A token is a sequence of  *)
(* characters.  Python values are tagged records: the host's dynamic type  *)
(* is the field k.                                                         *)
(***************************************************************************)
EXTENDS Integers, Sequences, FiniteSets, TLC

VARIABLES
    phase,        \* parser harness: "input" before parse_expression is applied, "parsed" after; "idle" elsewhere
    expression,   \* parser harness: the text handed to parse_expression
    parsed,       \* parser harness: what parse_expression returned or raised
    heap,         \* every Environment object created so far, by identity (index)
    repl,         \* the read-eval-print loop: "running", "quit" (break) or "crashed" (uncaught exception)
    line,         \* the text raw_input returned in the last iteration
    value,        \* what evaluate returned in the last iteration
    error,        \* the exception evaluate or parse_expression raised in the last iteration, "" if none
    evlog,        \* the calls of evaluate made in the last iteration, in order
    returns,      \* the calls of evaluate that returned a value in the last iteration, in order of return
    calls,        \* the calls of Procedure.__call__ made in the last iteration, in order
    before,       \* heap at the start of the last iteration
    nlines        \* number of lines read so far

vars == <<phase, expression, parsed, heap, repl, line, value, error, evlog, returns, calls, before, nlines>>

(***************************************************************************)
(* Bounds                                                                   *)
(***************************************************************************)
MaxLexemes == 6     \* lexemes of a text handed to the parser
MaxLines == 3       \* lines read by one session of the loop
MaxDepth == 16      \* nesting of evaluate calls before the host's recursion limit is taken to strike

(***************************************************************************)
(* Characters                                                               *)
(***************************************************************************)
Digits == {"0", "1", "2", "3", "4", "5", "6", "7", "8", "9"}

Letters ==
    {"a", "b", "c", "d", "e", "f", "g", "h", "i", "j", "k", "l", "m",
     "n", "o", "p", "q", "r", "s", "t", "u", "v", "w", "x", "y", "z",
     "A", "B", "C", "D", "E", "F", "G", "H", "I", "J", "K", "L", "M",
     "N", "O", "P", "Q", "R", "S", "T", "U", "V", "W", "X", "Y", "Z"}

\* the regular expression class \w on a byte string
WordChars == Digits \cup Letters \cup {"_"}

\* the regular expression class [()+\-*/><=]
PunctChars == {"(", ")", "+", "-", "*", "/", ">", "<", "="}

DigitValue(c) ==
    CASE c = "0" -> 0 [] c = "1" -> 1 [] c = "2" -> 2 [] c = "3" -> 3
      [] c = "4" -> 4 [] c = "5" -> 5 [] c = "6" -> 6 [] c = "7" -> 7
      [] c = "8" -> 8 [] c = "9" -> 9

\* the letters of "inf", "infinity", "nan" and the exponent mark, folded to lower case
Lower(c) ==
    CASE c = "I" -> "i" [] c = "N" -> "n" [] c = "F" -> "f" [] c = "T" -> "t"
      [] c = "Y" -> "y" [] c = "A" -> "a" [] c = "E" -> "e" [] OTHER -> c

LowerAll(t) == [i \in 1..Len(t) |-> Lower(t[i])]

(***************************************************************************)
(* Tokenizer: re.findall("\w+|[()+\-*/><=]", expression)                    *)
(***************************************************************************)
RECURSIVE WordRun(_)
\* length of the longest prefix of s made of word characters
WordRun(s) ==
    IF s = <<>> \/ Head(s) \notin WordChars THEN 0 ELSE 1 + WordRun(Tail(s))

RECURSIVE findall(_)
findall(s) ==
    IF s = <<>> THEN <<>>
    ELSE IF Head(s) \in WordChars
         THEN LET n == WordRun(s)
              IN <<SubSeq(s, 1, n)>> \o findall(SubSeq(s, n + 1, Len(s)))
    ELSE IF Head(s) \in PunctChars
         THEN <<(<<Head(s)>>)>> \o findall(Tail(s))
    ELSE findall(Tail(s))

(***************************************************************************)
(* typed: int(token), then float(token), then the token itself              *)
(***************************************************************************)
AllDigits(t) == t # <<>> /\ \A i \in 1..Len(t) : t[i] \in Digits

RECURSIVE IntValue(_)
\* int(token) for a token int() accepts
IntValue(t) ==
    IF t = <<>> THEN 0
    ELSE 10 * IntValue(SubSeq(t, 1, Len(t) - 1)) + DigitValue(t[Len(t)])

\* position of the exponent mark of a token of the form digits e digits, 0 if it has another form
ExpMark(t) ==
    LET marks == {i \in 1..Len(t) : Lower(t[i]) = "e"}
    IN IF \E i \in marks :
              /\ AllDigits(SubSeq(t, 1, i - 1))
              /\ AllDigits(SubSeq(t, i + 1, Len(t)))
       THEN CHOOSE i \in marks :
              /\ AllDigits(SubSeq(t, 1, i - 1))
              /\ AllDigits(SubSeq(t, i + 1, Len(t)))
       ELSE 0

FloatWords ==
    { <<"i", "n", "f">>, <<"i", "n", "f", "i", "n", "i", "t", "y">>, <<"n", "a", "n">> }

\* the tokens float() accepts and int() does not
IsFloatLiteral(t) == ExpMark(t) # 0 \/ LowerAll(t) \in FloatWords

RECURSIVE NumDigits(_)
NumDigits(n) == IF n < 10 THEN 1 ELSE 1 + NumDigits(n \div 10)

RECURSIVE Pow10(_)
Pow10(n) == IF n = 0 THEN 1 ELSE 10 * Pow10(n - 1)

RECURSIVE Normalize(_, _)
\* m * 10^e with the trailing zeros of m moved into e
Normalize(m, e) ==
    IF m = 0 THEN [k |-> "float", m |-> 0, e |-> 0]
    ELSE IF m % 10 = 0 THEN Normalize(m \div 10, e + 1)
    ELSE [k |-> "float", m |-> m, e |-> e]

FloatInf == [k |-> "float", special |-> "inf"]
FloatNan == [k |-> "float", special |-> "nan"]

\* the largest double is 1.7976931348623157e308: above it float() returns inf
Overflows(f) ==
    LET d == NumDigits(f.m)
    IN \/ d + f.e - 1 > 308
       \/ d + f.e - 1 = 308 /\ d <= 9 /\ f.m * Pow10(9 - d) > 179769313

\* float(token) for a token float() accepts
FloatValue(t) ==
    IF ExpMark(t) # 0
    THEN LET i == ExpMark(t)
             f == Normalize(IntValue(SubSeq(t, 1, i - 1)), IntValue(SubSeq(t, i + 1, Len(t))))
         IN IF f.m # 0 /\ Overflows(f) THEN FloatInf ELSE f
    ELSE IF LowerAll(t) = <<"n", "a", "n">> THEN FloatNan ELSE FloatInf

IntAtom(n) == [k |-> "int", v |-> n]
Symbol(t) == [k |-> "sym", name |-> t]
List(items) == [k |-> "list", items |-> items]

typed(token) ==
    IF AllDigits(token) THEN IntAtom(IntValue(token))
    ELSE IF IsFloatLiteral(token) THEN FloatValue(token)
    ELSE Symbol(token)

(***************************************************************************)
(* Parser.  The token list is consumed destructively: every function        *)
(* returns the tokens it left.                                              *)
(***************************************************************************)
NoTree == [k |-> "none"]

Raised(kind, tokens) == [err |-> kind, tree |-> NoTree, rest |-> tokens]
Returned(tree, tokens) == [err |-> "", tree |-> tree, rest |-> tokens]

RECURSIVE parse_tokens(_)
RECURSIVE parse_list_while(_, _)

\* parse_list putting each sub-expression in front of the earlier ones
parse_list_while_prepend(lst, tokens) ==
    IF tokens = <<>> THEN Raised("IndexError", tokens)
    ELSE IF Head(tokens) # <<")">>
         THEN LET r == parse_tokens(tokens)
              IN IF r.err # "" THEN r
                 ELSE parse_list_while(<<r.tree>> \o lst, r.rest)
    ELSE Returned(List(lst), Tail(tokens))

\* the loop of parse_list with lst built so far
parse_list_while(lst, tokens) ==
    IF tokens = <<>> THEN Raised("IndexError", tokens)          \* tokens[0] of an empty list
    ELSE IF Head(tokens) # <<")">>
         THEN LET r == parse_tokens(tokens)
              IN IF r.err # "" THEN r
                 ELSE parse_list_while(Append(lst, r.tree), r.rest)
    ELSE Returned(List(lst), Tail(tokens))                      \* tokens.pop(0)

parse_list(tokens) == parse_list_while(<<>>, tokens)

parse_tokens(tokens) ==
    IF tokens = <<>> THEN Raised("IndexError", tokens)          \* pop from empty list
    ELSE IF Head(tokens) = <<"(">> THEN parse_list(Tail(tokens))
    ELSE Returned(typed(Head(tokens)), Tail(tokens))

parse_expression(text) == parse_tokens(findall(text))

(***************************************************************************)
(* Values.  Integer and Float atoms of the tree are values as they are;     *)
(* List is also the value of the list primitive.                            *)
(***************************************************************************)
Bool(b) == [k |-> "bool", b |-> b]
None == [k |-> "None"]
Primitive(name) == [k |-> "prim", name |-> name]

Procedure(parameters, body, environment) ==
    [k |-> "proc", parameters |-> parameters, expression |-> body, environment |-> environment]

\* a truth value under which every list, also the empty one, is true
Truthy_any_list(v) ==
    CASE v.k = "bool" -> v.b
      [] v.k = "int" -> v.v # 0
      [] v.k = "float" -> IF "m" \in DOMAIN v THEN v.m # 0 ELSE TRUE
      [] v.k = "None" -> FALSE
      [] OTHER -> TRUE

\* Python's truth value of an object: bool(v)
Truthy(v) ==
    CASE v.k = "bool" -> v.b
      [] v.k = "int" -> v.v # 0
      [] v.k = "float" -> IF "m" \in DOMAIN v THEN v.m # 0 ELSE TRUE
      [] v.k = "list" -> v.items # <<>>
      [] v.k = "None" -> FALSE
      [] OTHER -> TRUE

(***************************************************************************)
(* Environment: a frame (dict) and a parent, 0 for None.  A key of a frame  *)
(* is the tree node used as dict key; a str key is a Symbol.                *)
(***************************************************************************)
EmptyFrame == [key \in {} |-> None]

SetItem(frame, key, val) ==
    [x \in DOMAIN frame \cup {key} |-> IF x = key THEN val ELSE frame[x]]

RECURSIVE Binder(_, _, _)
\* the nearest environment from env outwards whose frame binds var_name, 0 if none does
Binder(h, env, var_name) ==
    IF var_name \in DOMAIN h[env].frame THEN env
    ELSE IF h[env].parent_environment = 0 THEN 0
    ELSE Binder(h, h[env].parent_environment, var_name)

\* a set_var that assigns to the binding an enclosing frame already holds
set_var_alias(h, env, var_name, val) ==
    LET target == IF Binder(h, env, var_name) = 0 THEN env ELSE Binder(h, env, var_name)
    IN [h EXCEPT ![target].frame = SetItem(h[target].frame, var_name, val)]

\* Environment.set_var on the environment env of heap h
set_var(h, env, var_name, val) ==
    [h EXCEPT ![env].frame = SetItem(h[env].frame, var_name, val)]

RECURSIVE lookup(_, _, _)
\* Environment.lookup
lookup(h, env, var_name) ==
    IF var_name \in DOMAIN h[env].frame THEN [err |-> "", val |-> h[env].frame[var_name]]
    ELSE IF h[env].parent_environment # 0 THEN lookup(h, h[env].parent_environment, var_name)
    ELSE [err |-> "Exception", val |-> None]

\* the elements iterating over the object var_names yields: those of a list, the characters of a str
IterKeys(var_names) ==
    IF var_names.k = "list" THEN var_names.items
    ELSE [i \in 1..Len(var_names.name) |-> Symbol(<<var_names.name[i]>>)]

Min(a, b) == IF a < b THEN a ELSE b

RECURSIVE DictOf(_, _, _)
\* dict(zip(keys, values)) from pair i on: later pairs overwrite earlier ones
DictOf(keys, values, n) ==
    IF n = 0 THEN EmptyFrame
    ELSE SetItem(DictOf(keys, values, n - 1), keys[n], values[n])

\* Environment.__init__: [err, env]
Environment(var_names, values, parent_environment) ==
    IF var_names.k \notin {"list", "sym"}
    THEN [err |-> "TypeError", env |-> [frame |-> EmptyFrame, parent_environment |-> parent_environment]]
    ELSE LET keys == IterKeys(var_names)
             n == Min(Len(keys), Len(values))
         IN IF \E i \in 1..n : keys[i].k = "list"
            THEN [err |-> "TypeError", env |-> [frame |-> EmptyFrame, parent_environment |-> parent_environment]]
            ELSE [err |-> "", env |-> [frame |-> DictOf(keys, values, n),
                                      parent_environment |-> parent_environment]]

(***************************************************************************)
(* Primitive procedures of init_default_environment.  Arithmetic and        *)
(* comparison are modelled on int and bool operands; on any other operand   *)
(* kind the outcome is "OutOfModel", which no session of this model reaches.*)
(***************************************************************************)
IsIntLike(v) == v.k \in {"int", "bool"}
IntOf(v) == IF v.k = "bool" THEN (IF v.b THEN 1 ELSE 0) ELSE v.v

Ok(v) == [err |-> "", val |-> v]
Fail(kind) == [err |-> kind, val |-> None]

RECURSIVE Repeat(_, _)
Repeat(items, n) == IF n <= 0 THEN <<>> ELSE items \o Repeat(items, n - 1)

\* Python 2 integer division: floor of the quotient
FloorDiv(x, y) == IF y > 0 THEN x \div y ELSE (0 - x) \div (0 - y)

BinaryOp(op, x, y) ==
    IF IsIntLike(x) /\ IsIntLike(y)
    THEN CASE op = "add" -> Ok(IntAtom(IntOf(x) + IntOf(y)))
           [] op = "subtract" -> Ok(IntAtom(IntOf(x) - IntOf(y)))
           [] op = "multiply" -> Ok(IntAtom(IntOf(x) * IntOf(y)))
           [] op = "divide" -> IF IntOf(y) = 0 THEN Fail("ZeroDivisionError")
                               ELSE Ok(IntAtom(FloorDiv(IntOf(x), IntOf(y))))
    ELSE IF x.k = "float" \/ y.k = "float" THEN Fail("OutOfModel")
    ELSE IF op = "add" /\ x.k = "list" /\ y.k = "list" THEN Ok(List(x.items \o y.items))
    ELSE IF op = "multiply" /\ x.k = "list" /\ IsIntLike(y) THEN Ok(List(Repeat(x.items, IntOf(y))))
    ELSE IF op = "multiply" /\ IsIntLike(x) /\ y.k = "list" THEN Ok(List(Repeat(y.items, IntOf(x))))
    ELSE Fail("TypeError")

RECURSIVE ReduceFrom(_, _, _)
\* reduce(op, args) continued from the accumulated value acc
ReduceFrom(op, acc, args) ==
    IF args = <<>> THEN Ok(acc)
    ELSE LET r == BinaryOp(op, acc, Head(args))
         IN IF r.err # "" THEN r ELSE ReduceFrom(op, r.val, Tail(args))

RECURSIVE FoldRight(_, _)
FoldRight(op, args) ==
    IF Len(args) = 1 THEN Ok(Head(args))
    ELSE LET r == FoldRight(op, Tail(args))
         IN IF r.err # "" THEN r ELSE BinaryOp(op, Head(args), r.val)

\* a reduce that folds from the right
reduce_right(op, args) ==
    IF args = <<>> THEN Fail("TypeError") ELSE FoldRight(op, args)

\* reduce(lambda x,y: x op y, args)
reduce(op, args) ==
    IF args = <<>> THEN Fail("TypeError") ELSE ReduceFrom(op, Head(args), Tail(args))

first(args) ==
    IF Len(args) # 1 THEN Fail("TypeError")
    ELSE IF args[1].k # "list" THEN Fail("TypeError")
    ELSE IF args[1].items = <<>> THEN Fail("IndexError")
    ELSE Ok(Head(args[1].items))

rest(args) ==
    IF Len(args) # 1 THEN Fail("TypeError")
    ELSE IF args[1].k # "list" THEN Fail("TypeError")
    ELSE IF args[1].items = <<>> THEN Ok(List(<<>>))
    ELSE Ok(List(Tail(args[1].items)))

create_list(args) == Ok(List(args))

Compare(op, args) ==
    IF Len(args) < 2 THEN Fail("IndexError")
    ELSE IF ~(IsIntLike(args[1]) /\ IsIntLike(args[2])) THEN Fail("OutOfModel")
    ELSE CASE op = "less_than" -> Ok(Bool(IntOf(args[1]) < IntOf(args[2])))
           [] op = "greater_than" -> Ok(Bool(IntOf(args[1]) > IntOf(args[2])))
           [] op = "equals" -> Ok(Bool(IntOf(args[1]) = IntOf(args[2])))

\* func(*args) for a primitive procedure
ApplyPrimitive(name, args) ==
    CASE name \in {"add", "subtract", "multiply", "divide"} -> reduce(name, args)
      [] name = "first" -> first(args)
      [] name = "rest" -> rest(args)
      [] name = "create_list" -> create_list(args)
      [] name \in {"less_than", "greater_than", "equals"} -> Compare(name, args)

(***************************************************************************)
(* Evaluator.  The interpreter's mutable state during one evaluation is the *)
(* record m: the heap of environments and the logs of the calls made.  The  *)
(* path of a call of evaluate is its place in the tree of calls: i >= 0 is  *)
(* the element exptree[i] of the caller's tree, -1 the body of the          *)
(* procedure the caller applied.                                            *)
(***************************************************************************)
Value(v, m) == [err |-> "", val |-> v, m |-> m]
Raise(kind, m) == [err |-> kind, val |-> None, m |-> m]

t_def == <<"d", "e", "f">>
t_define == <<"d", "e", "f", "i", "n", "e">>
t_if == <<"i", "f">>
t_fn == <<"f", "n">>
t_lambda == <<"l", "a", "m", "b", "d", "a">>

RECURSIVE evaluate(_, _, _, _)
RECURSIVE evaluate_args(_, _, _, _, _, _)

\* a __call__ whose new environment extends the caller's environment
call_dynamic(procedure, args, m, path, caller) ==
    LET e == Environment(procedure.parameters, args, caller)
        frame == Len(m.heap) + 1
    IN IF e.err # "" THEN Raise(e.err, m)
       ELSE evaluate(procedure.expression, frame,
                     [m EXCEPT !.heap = Append(@, e.env),
                               !.calls = Append(@, [procedure |-> procedure, args |-> args,
                                                    frame |-> frame, caller |-> caller, path |-> path])],
                     Append(path, -1))

\* Procedure.__call__, called from an evaluation in the environment caller
call(procedure, args, m, path, caller) ==
    LET e == Environment(procedure.parameters, args, procedure.environment)
        frame == Len(m.heap) + 1
    IN IF e.err # "" THEN Raise(e.err, m)
       ELSE evaluate(procedure.expression, frame,
                     [m EXCEPT !.heap = Append(@, e.env),
                               !.calls = Append(@, [procedure |-> procedure, args |-> args,
                                                    frame |-> frame, caller |-> caller, path |-> path])],
                     Append(path, -1))

\* func(*args)
apply(func, args, m, path, caller) ==
    IF func.k = "prim"
    THEN LET r == ApplyPrimitive(func.name, args) IN [err |-> r.err, val |-> r.val, m |-> m]
    ELSE IF func.k = "proc" THEN call(func, args, m, path, caller)
    ELSE Raise("TypeError", m)

\* the branch for 'def' and 'define'
evaluate_define(items, environment, m, path) ==
    IF Len(items) < 3 THEN Raise("IndexError", m)
    ELSE LET r == evaluate(items[3], environment, m, Append(path, 2))
         IN IF r.err # "" THEN r
            ELSE IF items[2].k = "list" THEN Raise("TypeError", r.m)      \* unhashable dict key
            ELSE Value(None, [r.m EXCEPT !.heap = set_var(r.m.heap, environment, items[2], r.val)])

\* an 'if' that evaluates both clauses before it chooses
evaluate_if_strict(items, environment, m, path) ==
    IF Len(items) < 4 THEN Raise("IndexError", m)
    ELSE LET p == evaluate(items[2], environment, m, Append(path, 1))
             t == evaluate(items[3], environment, p.m, Append(path, 2))
             f == evaluate(items[4], environment, t.m, Append(path, 3))
         IN IF p.err # "" THEN p
            ELSE IF t.err # "" THEN t
            ELSE IF f.err # "" THEN f
            ELSE IF Truthy(p.val) THEN [t EXCEPT !.m = f.m] ELSE f

\* the branch for 'if'
evaluate_if(items, environment, m, path) ==
    IF Len(items) < 4 THEN Raise("IndexError", m)
    ELSE LET p == evaluate(items[2], environment, m, Append(path, 1))
         IN IF p.err # "" THEN p
            ELSE IF Truthy(p.val) THEN evaluate(items[3], environment, p.m, Append(path, 2))
            ELSE evaluate(items[4], environment, p.m, Append(path, 3))

\* a 'fn' whose procedure captures a copy of the environment
evaluate_fn_copy(items, environment, m, path) ==
    IF Len(items) < 3 THEN Raise("IndexError", m)
    ELSE Value(Procedure(items[2], items[3], Len(m.heap) + 1),
               [m EXCEPT !.heap = Append(@, m.heap[environment])])

\* the branch for 'fn' and 'lambda'
evaluate_fn(items, environment, m, path) ==
    IF Len(items) < 3 THEN Raise("IndexError", m)
    ELSE Value(Procedure(items[2], items[3], environment), m)

\* [evaluate(arg, environment) for arg in exptree[1:]] from element i on, vals evaluated so far
evaluate_args(items, environment, m, path, i, vals) ==
    IF i > Len(items) THEN [err |-> "", vals |-> vals, m |-> m]
    ELSE LET r == evaluate(items[i], environment, m, Append(path, i - 1))
         IN IF r.err # "" THEN [err |-> r.err, vals |-> vals, m |-> r.m]
            ELSE evaluate_args(items, environment, r.m, path, i + 1, Append(vals, r.val))

\* the branch for procedure application
evaluate_application(items, environment, m, path) ==
    LET f == evaluate(items[1], environment, m, Append(path, 0))
    IN IF f.err # "" THEN f
       ELSE LET a == evaluate_args(items, environment, f.m, path, 2, <<>>)
            IN IF a.err # "" THEN Raise(a.err, a.m)
               ELSE apply(f.val, a.vals, a.m, path, environment)

\* the dispatch of evaluate
dispatch(exptree, environment, m, path) ==
    IF Len(path) >= MaxDepth THEN Raise("RuntimeError", m)
    ELSE IF exptree.k = "sym"
         THEN LET r == lookup(m.heap, environment, exptree)
              IN [err |-> r.err, val |-> r.val, m |-> m]
    ELSE IF exptree.k \in {"int", "float"} THEN Value(exptree, m)
    ELSE IF exptree.k = "list" /\ exptree.items = <<>> THEN Raise("IndexError", m)   \* exptree[0]
    ELSE IF exptree.k = "list" /\ exptree.items[1] \in {Symbol(t_def), Symbol(t_define)}
         THEN evaluate_define(exptree.items, environment, m, path)
    ELSE IF exptree.k = "list" /\ exptree.items[1] = Symbol(t_if)
         THEN evaluate_if(exptree.items, environment, m, path)
    ELSE IF exptree.k = "list" /\ exptree.items[1] \in {Symbol(t_fn), Symbol(t_lambda)}
         THEN evaluate_fn(exptree.items, environment, m, path)
    ELSE IF exptree.k = "list" THEN evaluate_application(exptree.items, environment, m, path)
    ELSE Raise("SyntaxError", m)

\* evaluate, with the call and its return recorded
evaluate(exptree, environment, m, path) ==
    LET r == dispatch(exptree, environment,
                      [m EXCEPT !.evlog = Append(@, [path |-> path, exptree |-> exptree,
                                                     environment |-> environment])],
                      path)
    IN IF r.err # "" THEN r
       ELSE [r EXCEPT !.m.returns = Append(@, [path |-> path, val |-> r.val])]

(***************************************************************************)
(* init_default_environment                                                 *)
(***************************************************************************)
t_first == <<"f", "i", "r", "s", "t">>
t_rest == <<"r", "e", "s", "t">>
t_list == <<"l", "i", "s", "t">>
t_true == <<"t", "r", "u", "e">>
t_false == <<"f", "a", "l", "s", "e">>

init_default_environment ==
    [frame |->
        (Symbol(<<"+">>) :> Primitive("add")) @@
        (Symbol(<<"-">>) :> Primitive("subtract")) @@
        (Symbol(<<"*">>) :> Primitive("multiply")) @@
        (Symbol(<<"/">>) :> Primitive("divide")) @@
        (Symbol(t_first) :> Primitive("first")) @@
        (Symbol(t_rest) :> Primitive("rest")) @@
        (Symbol(t_list) :> Primitive("create_list")) @@
        (Symbol(t_true) :> Bool(TRUE)) @@
        (Symbol(t_false) :> Bool(FALSE)) @@
        (Symbol(<<"<">>) :> Primitive("less_than")) @@
        (Symbol(<<">">>) :> Primitive("greater_than")) @@
        (Symbol(<<"=">>) :> Primitive("equals")),
     parent_environment |-> 0]

(***************************************************************************)
(* Inputs.  A text is written as the sequence of its tokens and rendered    *)
(* with one blank between two tokens.                                       *)
(***************************************************************************)
RECURSIVE Cat(_)
Cat(parts) == IF parts = <<>> THEN <<>> ELSE Head(parts) \o Cat(Tail(parts))

A(c) == << <<c>> >>
W(t) == << t >>
Form(parts) == << <<"(">> >> \o Cat(parts) \o << <<")">> >>

RECURSIVE Text(_)
Text(tokens) ==
    IF tokens = <<>> THEN <<>>
    ELSE IF Len(tokens) = 1 THEN Head(tokens)
    ELSE Head(tokens) \o <<" ">> \o Text(Tail(tokens))

t_quit == <<"q", "u", "i", "t">>

SumLine == Form(<<A("+"), A("1"), A("2"), A("3")>>)
ArithLine == Form(<<A("-"), A("9"), Form(<<A("*"), A("2"), A("3")>>), A("1")>>)
FirstLine ==
    Form(<<W(t_first), Form(<<W(t_list), A("1"), Form(<<A("+"), A("2"), A("3")>>), A("9")>>)>>)
DefX == Form(<<W(t_define), A("x"), A("1")>>)
DefX7 == Form(<<W(t_def), A("x"), A("7")>>)
DefH == Form(<<W(t_define), A("h"), Form(<<W(t_fn), Form(<<>>), A("x")>>)>>)
CallH == Form(<<A("h")>>)
DefG ==
    Form(<<W(t_define), A("g"),
           Form(<<Form(<<W(t_fn), Form(<<A("x")>>), Form(<<W(t_lambda), Form(<<>>), A("x")>>)>>),
                  A("5")>>)>>)
CallG == Form(<<Form(<<W(t_fn), Form(<<A("x")>>), Form(<<A("g")>>)>>), A("9")>>)
Shadow ==
    Form(<<Form(<<W(t_fn), Form(<<>>),
                  Form(<<W(t_if), Form(<<W(t_define), A("x"), A("9")>>), A("0"), A("x")>>)>>)>>)
DefF ==
    Form(<<W(t_define), A("f"),
           Form(<<W(t_fn), Form(<<A("n")>>),
                  Form(<<W(t_if), A("n"),
                         Form(<<A("f"), Form(<<A("-"), A("n"), A("1")>>)>>),
                         A("0")>>)>>)>>)
CallF == Form(<<A("f"), A("2")>>)
Undefined == W(<<"z", "z">>)
EmptyList == Form(<<>>)

Preds ==
    { A("3"), A("0"), W(t_true), W(t_false), A("+"), W(<<"0", "e", "0">>), W(<<"1", "e", "2">>),
      Form(<<W(t_list)>>), Form(<<W(t_list), A("0")>>),
      Form(<<W(t_rest), Form(<<W(t_list), A("1")>>)>>),
      Form(<<W(t_fn), Form(<<>>), A("0")>>),
      Form(<<W(t_define), A("y"), A("5")>>) }

IfThen(p) == Form(<<W(t_if), p, A("7"), Undefined>>)
IfElse(p) == Form(<<W(t_if), p, Form(<<W(t_define), A("y"), A("5")>>), A("8")>>)

Programs ==
    { SumLine, ArithLine, FirstLine, DefX, DefX7, DefH, CallH, DefG, CallG, Shadow, DefF, CallF,
      Undefined, EmptyList }
    \cup { IfThen(p) : p \in Preds } \cup { IfElse(p) : p \in Preds }

\* what raw_input may return
Inputs == { Text(l) : l \in Programs } \cup { t_quit }

Lexemes == { <<"(">>, <<")">>, <<" ">>, <<"7">>, <<"1", "e", "2">>, <<"+">> }

\* the texts handed to the parser: every concatenation of at most MaxLexemes lexemes
Texts == { Cat(s) : s \in UNION { [1..n -> Lexemes] : n \in 0..MaxLexemes } }

(***************************************************************************)
(* The read-eval-print loop                                                 *)
(***************************************************************************)
NotParsed == [err |-> "", tree |-> NoTree, rest |-> <<>>]

Init ==
    /\ phase = "idle"
    /\ expression = <<>>
    /\ parsed = NotParsed
    /\ heap = <<init_default_environment>>
    /\ repl = "running"
    /\ line = <<>>
    /\ value = None
    /\ error = ""
    /\ evlog = <<>>
    /\ returns = <<>>
    /\ calls = <<>>
    /\ before = <<init_default_environment>>
    /\ nlines = 0

\* one iteration of the loop of repl, raw_input returning exp
repl_iteration(exp) ==
    /\ repl = "running"
    /\ nlines < MaxLines
    /\ nlines' = nlines + 1
    /\ line' = exp
    /\ before' = heap
    /\ UNCHANGED <<phase, expression, parsed>>
    /\ IF exp = t_quit
       THEN /\ repl' = "quit"
            /\ evlog' = <<>> /\ returns' = <<>> /\ calls' = <<>>
            /\ UNCHANGED <<heap, value, error>>
       ELSE LET m0 == [heap |-> heap, evlog |-> <<>>, returns |-> <<>>, calls |-> <<>>]
                p == parse_expression(exp)
                r == IF p.err # "" THEN Raise(p.err, m0) ELSE evaluate(p.tree, 1, m0, <<>>)
            IN /\ heap' = r.m.heap
               /\ evlog' = r.m.evlog
               /\ returns' = r.m.returns
               /\ calls' = r.m.calls
               /\ value' = r.val                                   \* the value print receives
               /\ error' = r.err
               /\ repl' = IF r.err # "" THEN "crashed" ELSE "running"   \* no handler: the exception leaves repl

Next == \E exp \in Inputs : repl_iteration(exp)

Spec == Init /\ [][Next]_vars

(***************************************************************************)
(* parse_expression applied to one text                                     *)
(***************************************************************************)
InitParse ==
    /\ phase = "input"
    /\ expression \in Texts
    /\ parsed = NotParsed
    /\ heap = <<>>
    /\ repl = "running"
    /\ line = <<>>
    /\ value = None
    /\ error = ""
    /\ evlog = <<>>
    /\ returns = <<>>
    /\ calls = <<>>
    /\ before = <<>>
    /\ nlines = 0

Parse ==
    /\ phase = "input"
    /\ phase' = "parsed"
    /\ parsed' = parse_expression(expression)
    /\ UNCHANGED <<expression, heap, repl, line, value, error, evlog, returns, calls, before, nlines>>

NextParse == Parse

SpecParse == InitParse /\ [][NextParse]_vars

(***************************************************************************)
(* Properties of the parser, checked under SpecParse                        *)
(***************************************************************************)
Tok == findall(expression)

\* open parentheses minus close parentheses among the first n tokens
ParenDepth(tokens, n) ==
    Cardinality({i \in 1..n : tokens[i] = <<"(">>}) - Cardinality({i \in 1..n : tokens[i] = <<")">>})

Balanced(tokens) ==
    /\ tokens # <<>>
    /\ \A n \in 1..Len(tokens) : ParenDepth(tokens, n) >= 0
    /\ ParenDepth(tokens, Len(tokens)) = 0

\* one atom, or one parenthesised expression that closes at the last token
WellFormed(tokens) ==
    /\ Balanced(tokens)
    /\ \/ Len(tokens) = 1
       \/ \A n \in 1..(Len(tokens) - 1) : ParenDepth(tokens, n) > 0

\* the atom a token stands for: floats tells whether float literals are told from symbols
AtomOf(token, floats) ==
    IF AllDigits(token) THEN IntAtom(IntValue(token))
    ELSE IF floats /\ IsFloatLiteral(token) THEN FloatValue(token)
    ELSE Symbol(token)

RECURSIVE Nest(_, _, _)
\* the groups still open, innermost last, after reading the tokens from left to right
Nest(tokens, open, floats) ==
    IF tokens = <<>> THEN open
    ELSE IF Head(tokens) = <<"(">> THEN Nest(Tail(tokens), Append(open, <<>>), floats)
    ELSE IF Head(tokens) = <<")">>
         THEN LET n == Len(open)
              IN Nest(Tail(tokens),
                      Append(SubSeq(open, 1, n - 2), Append(open[n - 1], List(open[n]))),
                      floats)
    ELSE Nest(Tail(tokens),
              [open EXCEPT ![Len(open)] = Append(@, AtomOf(Head(tokens), floats))],
              floats)

\* the tree that mirrors the nesting of well-formed tokens
Mirror(tokens, floats) == Nest(tokens, << <<>> >>, floats)[1][1]

\* C1 as stated: for every well-formed input parse_expression returns the tree that mirrors the
\* nesting of the text, every all-digit token an Integer atom and every other token a Symbol atom
C1_MirrorsText_IntOrSymbol ==
    (phase = "parsed" /\ WellFormed(Tok)) =>
        (parsed.err = "" /\ parsed.tree = Mirror(Tok, FALSE))

\* C1 amended: for every well-formed input parse_expression returns the tree that mirrors the
\* nesting of the text, every all-digit token an Integer atom, every other token float() accepts
\* (such as 1e2) a Float atom, and every remaining token a Symbol atom
C1_MirrorsText ==
    (phase = "parsed" /\ WellFormed(Tok)) =>
        (parsed.err = "" /\ parsed.tree = Mirror(Tok, TRUE))

\* "(+(1e2))" and "(7 +)" have been parsed: a symbol, a nested list, a float and an integer
C1_Witness ==
    /\ phase = "parsed"
    /\ WellFormed(Tok)
    /\ \/ /\ expression = <<"(", "+", "(", "1", "e", "2", ")", ")">>
          /\ parsed.tree = List(<<Symbol(<<"+">>), List(<<Normalize(1, 2)>>)>>)
       \/ /\ expression = <<"(", "7", " ", "+", ")">>
          /\ parsed.tree = List(<<IntAtom(7), Symbol(<<"+">>)>>)

\* C7 as stated: parse_expression fails on every input whose parentheses are unbalanced or that
\* has no token, and never returns a tree for it
C7_UnbalancedFails ==
    (phase = "parsed" /\ ~Balanced(Tok)) => parsed.err # ""

(***************************************************************************)
(* Properties of the evaluator and the loop, checked under Spec             *)
(***************************************************************************)
\* the calls of evaluate at a path, and those that returned
Entries(path) == {i \in DOMAIN evlog : evlog[i].path = path}
RetAt(path) == {i \in DOMAIN returns : returns[i].path = path}
RetVal(path) == returns[CHOOSE i \in RetAt(path) : TRUE].val

IsForm(x, heads, n) == x.k = "list" /\ Len(x.items) >= n /\ x.items[1] \in heads
IsIfForm(x) == IsForm(x, {Symbol(t_if)}, 4)
IsDefineForm(x) == IsForm(x, {Symbol(t_def), Symbol(t_define)}, 3)
IsFnForm(x) == IsForm(x, {Symbol(t_fn), Symbol(t_lambda)}, 3)
IsArithForm(x) == IsForm(x, {Symbol(<<"+">>), Symbol(<<"-">>), Symbol(<<"*">>)}, 2)

Bound(h, name) == lookup(h, 1, Symbol(name)).err = ""
GlobalValue(h, name) == lookup(h, 1, Symbol(name)).val

RECURSIVE Sum(_)
Sum(ns) == IF ns = <<>> THEN 0 ELSE Head(ns) + Sum(Tail(ns))
RECURSIVE Product(_)
Product(ns) == IF ns = <<>> THEN 1 ELSE Head(ns) * Product(Tail(ns))

\* ((a1 op a2) op a3) ... in closed form
LeftFold(sym, ns) ==
    CASE sym = Symbol(<<"+">>) -> Sum(ns)
      [] sym = Symbol(<<"-">>) -> Head(ns) - Sum(Tail(ns))
      [] sym = Symbol(<<"*">>) -> Product(ns)

PrimitiveOf(sym) ==
    CASE sym = Symbol(<<"+">>) -> Primitive("add")
      [] sym = Symbol(<<"-">>) -> Primitive("subtract")
      [] sym = Symbol(<<"*">>) -> Primitive("multiply")

\* C2: an application of '+', '-' or '*' as bound in the global environment to n >= 1 arguments
\* evaluates the operator and every argument exactly once and returns the left fold of the
\* argument values, nested applications included
C2_ArithmeticLeftFold ==
    error = "" =>
        \A i \in DOMAIN evlog :
            LET x == evlog[i].exptree
                p == evlog[i].path
            IN (IsArithForm(x) /\ RetAt(Append(p, 0)) # {} /\ RetVal(Append(p, 0)) = PrimitiveOf(x.items[1])) =>
                   /\ \A j \in 0..(Len(x.items) - 1) :
                          /\ Cardinality(Entries(Append(p, j))) = 1
                          /\ Cardinality(RetAt(Append(p, j))) = 1
                   /\ (\A j \in 1..(Len(x.items) - 1) : RetVal(Append(p, j)).k = "int") =>
                          /\ RetAt(p) # {}
                          /\ RetVal(p) = IntAtom(LeftFold(x.items[1],
                                 [j \in 1..(Len(x.items) - 1) |-> RetVal(Append(p, j)).v]))

\* (- 9 (* 2 3) 1) has evaluated to 2
C2_Witness ==
    /\ line = Text(ArithLine)
    /\ error = ""
    /\ value = IntAtom(2)
    /\ RetVal(<<2>>) = IntAtom(6)

\* C3: every closure invocation creates exactly one new environment, whose parent is the
\* environment the closure captured and not the caller's; the closure g made by a call that has
\* returned resolves its free variable x in that call's frame, whatever the caller binds x to
C3_LexicalScoping ==
    /\ Len(heap) = Len(before) + Len(calls)
    /\ \A i \in DOMAIN calls :
           /\ calls[i].frame = Len(before) + i
           /\ heap[calls[i].frame].parent_environment = calls[i].procedure.environment
    /\ (line = Text(CallG) /\ Bound(before, <<"g">>)) => (error = "" /\ value = IntAtom(5))

\* g was invoked from a frame that binds x to 9, after the call that bound x to 5 returned
C3_Witness ==
    /\ line = Text(CallG)
    /\ error = ""
    /\ value = IntAtom(5)
    /\ Len(calls) = 2
    /\ calls[2].caller = calls[1].frame
    /\ heap[calls[2].caller].frame[Symbol(<<"x">>)] = IntAtom(9)
    /\ calls[2].procedure.environment # calls[2].caller
    /\ heap[calls[2].procedure.environment].frame[Symbol(<<"x">>)] = IntAtom(5)

\* a define of key was evaluated in the environment env during the last iteration
DefinedIn(env, key) ==
    \E i \in DOMAIN evlog :
        /\ IsDefineForm(evlog[i].exptree)
        /\ evlog[i].environment = env
        /\ evlog[i].exptree.items[2] = key

\* C4: a define evaluated in E binds only in E's own frame: a frame changes the binding of a
\* name only by a define of that name evaluated in that very environment, so a define in a
\* child leaves what a lookup from the parent returns as it was
C4_DefineIsLocal ==
    /\ \A env \in DOMAIN before :
           /\ heap[env].parent_environment = before[env].parent_environment
           /\ DOMAIN before[env].frame \subseteq DOMAIN heap[env].frame
           /\ \A key \in DOMAIN heap[env].frame :
                  (key \notin DOMAIN before[env].frame \/ heap[env].frame[key] # before[env].frame[key])
                      => DefinedIn(env, key)
    /\ (line = Text(Shadow) /\ Bound(before, <<"x">>)) =>
           /\ error = "" /\ value = IntAtom(9)
           /\ GlobalValue(heap, <<"x">>) = GlobalValue(before, <<"x">>)

\* x was defined as 9 in a child of the global environment, which binds x already
C4_Witness ==
    /\ line = Text(Shadow)
    /\ Bound(before, <<"x">>)
    /\ GlobalValue(heap, <<"x">>) \in {IntAtom(1), IntAtom(7)}
    /\ Len(heap) = Len(before) + 1
    /\ heap[Len(heap)].frame[Symbol(<<"x">>)] = IntAtom(9)
    /\ heap[Len(heap)].parent_environment = 1
    /\ value = IntAtom(9)

\* C5: an if evaluates its predicate once and then exactly one of its two clauses, and its
\* value is that clause's value: nothing of the other clause is evaluated
C5_IfEvaluatesOneBranch ==
    \A i \in DOMAIN evlog :
        LET p == evlog[i].path
        IN IsIfForm(evlog[i].exptree) =>
               /\ Cardinality(Entries(Append(p, 1))) = 1
               /\ Cardinality(Entries(Append(p, 2))) + Cardinality(Entries(Append(p, 3))) <= 1
               /\ RetAt(Append(p, 1)) # {} =>
                      Cardinality(Entries(Append(p, 2))) + Cardinality(Entries(Append(p, 3))) = 1
               /\ \A b \in {2, 3} :
                      RetAt(Append(p, b)) # {} =>
                          (RetAt(p) # {} /\ RetVal(p) = RetVal(Append(p, b)))
               /\ \A j \in DOMAIN evlog :
                      (Len(evlog[j].path) > Len(p) + 1
                           /\ SubSeq(evlog[j].path, 1, Len(p)) = p
                           /\ evlog[j].path[Len(p) + 1] \in {2, 3})
                          => Entries(Append(p, evlog[j].path[Len(p) + 1])) # {}

\* (if 3 7 zz) returned 7, and (if (list) (define y 5) 8) returned 8 leaving y unbound
C5_Witness ==
    \/ /\ line = Text(IfThen(A("3")))
       /\ error = ""
       /\ value = IntAtom(7)
       /\ Entries(<<3>>) = {}
    \/ /\ line = Text(IfElse(A("0")))
       /\ error = ""
       /\ value = IntAtom(8)
       /\ ~Bound(heap, <<"y">>)

\* C6 as stated: an evaluation error never ends the loop, which ends only on the input quit
C6_ReplSurvivesErrors ==
    /\ error # "" => repl = "running"
    /\ repl # "running" => line = t_quit

\* C8 as stated: evaluating an empty list fails with the evaluator's own Unsupported Expression
\* error (a SyntaxError)
C8_EmptyListUnsupported ==
    \A i \in DOMAIN evlog : evlog[i].exptree = List(<<>>) => error = "SyntaxError"

FloatZero == Normalize(0, 0)

\* C9 as stated: the then-clause is evaluated whenever the predicate's value is anything other
\* than false or 0, the empty list included, and the else-clause only when it is false or 0
C9_FalseAndZeroOnly ==
    \A i \in DOMAIN evlog :
        LET p == evlog[i].path
        IN (IsIfForm(evlog[i].exptree) /\ RetAt(Append(p, 1)) # {}) =>
               /\ Entries(Append(p, 2)) # {} <=> RetVal(Append(p, 1)) \notin {Bool(FALSE), IntAtom(0), FloatZero}
               /\ Entries(Append(p, 3)) # {} <=> RetVal(Append(p, 1)) \in {Bool(FALSE), IntAtom(0), FloatZero}

\* C9 amended: the then-clause is evaluated whenever the predicate's value is anything other
\* than false, 0, the empty list or the None a define returns (any non-zero number, true, a
\* closure, a primitive, a non-empty list), and the else-clause only when it is one of these
C9_Truthiness ==
    \A i \in DOMAIN evlog :
        LET p == evlog[i].path
            falsy == {Bool(FALSE), IntAtom(0), FloatZero, List(<<>>), None}
        IN (IsIfForm(evlog[i].exptree) /\ RetAt(Append(p, 1)) # {}) =>
               /\ Entries(Append(p, 2)) # {} <=> RetVal(Append(p, 1)) \notin falsy
               /\ Entries(Append(p, 3)) # {} <=> RetVal(Append(p, 1)) \in falsy

\* (if (rest (list 1)) (define y 5) 8) took the else-clause on the empty list
C9_Witness ==
    /\ line = Text(IfElse(Form(<<W(t_rest), Form(<<W(t_list), A("1")>>)>>)))
    /\ error = ""
    /\ RetVal(<<1>>) = List(<<>>)
    /\ value = IntAtom(8)

\* C10: a procedure holds the environment it was created in itself, not a copy: h, created in
\* the global environment, returns the value x has there when h is called, and f, bound by
\* (define f (fn ...)) after the procedure was made, calls itself
C10_SharedEnvironment ==
    /\ \A i \in DOMAIN returns :
           \A j \in DOMAIN evlog :
               (evlog[j].path = returns[i].path /\ IsFnForm(evlog[j].exptree)) =>
                   /\ returns[i].val.k = "proc"
                   /\ returns[i].val.environment = evlog[j].environment
    /\ (line = Text(CallH) /\ Bound(before, <<"h">>)) =>
           IF Bound(before, <<"x">>)
           THEN error = "" /\ value = GlobalValue(before, <<"x">>)
           ELSE error = "Exception"
    /\ (line = Text(CallF) /\ Bound(before, <<"f">>)) => (error = "" /\ value = IntAtom(0))

\* f, bound in the global environment after its procedure was created, has called itself twice
C10_Witness ==
    /\ line = Text(CallF)
    /\ error = ""
    /\ value = IntAtom(0)
    /\ Len(calls) = 3
    /\ \A i \in 1..3 : calls[i].procedure = GlobalValue(heap, <<"f">>)
    /\ calls[1].procedure.environment = 1

====
